---- MODULE Spec2Model ----
(***************************************************************************)
(* hbien/math_quiz: the Problem record, its check_guess transition, the    *)
(* weighted selector select_problem (src/src/lib.rs) and the program that  *)
(* drives them (src/src/main.rs).                                          *)
(*                                                                         *)
(* Units.  A Duration is held in milliseconds; as_secs() truncates it to   *)
(* whole seconds.  A score is the f32 num_wrong*30 + as_secs: an integer   *)
(* value, exact in f32 for every sum below 2^24, which covers every        *)
(* catalog of this model.  The f32 drawn by gen_range(0.0..=max_score) is  *)
(* held as its ceiling: the running sums are integers, so                  *)
(* score >= pick holds exactly when score >= ceiling(pick); the value k    *)
(* stands for the draws in the cell (k-1, k], and 0 for the draw 0.0.      *)
(***************************************************************************)
EXTENDS Integers, Sequences, FiniteSets, TLC

VARIABLES
    problems,   \* the catalog: Vec<Problem>
    checks,     \* the build: TRUE when integer overflow panics (debug),
                \* FALSE when it wraps (release)
    last,       \* the last call, its arguments and its outcome
    pc,         \* main's position ("lib" when a caller drives the library)
    args,       \* main's command line: the reset flag and the subcommand
    file,       \* the progress file
    op_seen,        \* main: HashMap from operator to "seen in this session"
    num_correct,    \* main: the counter of consecutive correct answers
    num_questions,  \* main: the number of questions asked
    prob,           \* main: the index of the problem being asked
    timer,          \* main: timer.elapsed() when it was last read, in ms
    clean,      \* history: how many of the latest questions in a row were
                \* answered in under two seconds with no wrong guess
    spoiled     \* history: the question being asked had a wrong guess

\* The variables of main's quiz session.
session ==
    <<op_seen, num_correct, num_questions, prob, timer, clean, spoiled>>

vars == <<problems, checks, last, pc, args, file, session>>

----------------------------------------------------------------------------
(* Bounds of the model *)

MaxLen == 2          \* longest catalog the callers build
MaxWrong == 2        \* check_guess is explored while the catalog's wrong
                     \* counts total at most this, the counts within
                     \* WrapWindow of the top of the u16 range left out
WrapWindow == 2
MaxSelectLen == 3    \* longest catalog handed to select_problem on its own
MaxSessionWrong == 1 \* a quiz session is explored while the catalog's
                     \* wrong counts total at most this
DrawSteps == 3       \* the sampled draws are the fractions u/DrawSteps of
                     \* the range [0, max_score], both endpoints included

(* Program constants *)

U8Mod == 256         \* operands and answer are u8
U16Mod == 65536      \* num_wrong and guess are u16
USizeMax == 2147483647   \* usize::MAX, the value 0usize - 1 wraps to (held
                         \* as the largest integer the model checker holds)
WrongWeight == 30    \* get_score: num_wrong as f32 * 30.0
MillisPerSec == 1000 \* Duration::as_secs
PlusSeedSecs == 5    \* add_addition:    Duration::from_secs(5)
MinusSeedSecs == 10  \* add_subtraction: Duration::from_secs(10)
MultSeedSecs == 15   \* add_mult:        Duration::from_secs(15)

AddXFirst == 1       \* add_addition:    for x in 1..=15
AddXLast == 15
AddYLast == 13       \*                  for y in 0..=13
SubXLast == 15       \* add_subtraction: for x in 0..=15, for y in 1..x
MultXLast == 5       \* add_mult:        for x in 1..=5
MultYLast == 3       \*                  for y in 1..=3

QuestionCap == 30    \* main: while num_questions<30
StreakLen == 5       \* main: num_correct<5
FastSecs == 2        \* main: get_time().as_secs()<=2

MathOp == {"Plus", "Minus", "Multiply"}

\* Elapsed times a caller supplies to check_guess, in milliseconds.
ElapsedTimes == {999, 2500}

\* Operand pairs handed to Problem::new directly, the invalid ones included.
NewOperands == {<<7, 3>>, <<3, 7>>, <<200, 100>>, <<16, 16>>}

\* Operand pair of the problems pushed on the catalog: one that add_addition,
\* add_subtraction and add_mult all generate.
PushOperands == {<<2, 1>>}

\* Guesses a caller supplies: the answers of 2+1, 2-1 and 2x1.
Guesses == {1, 2, 3}

\* num_wrong and latest_time a caller hands to Problem::new, as
\* tests::test_select does; the top of the u16 range included.
NewWrongs == {1, U16Mod - 1}
NewTimes == {999, 5000}

----------------------------------------------------------------------------
(* Duration *)

FromSecs(s) == s * MillisPerSec

AsSecs(d) == d \div MillisPerSec

----------------------------------------------------------------------------
(* Problem *)

\* The exact value of the operator applied to the operands.
Exact(operands, operator) ==
    CASE operator = "Plus" -> operands[1] + operands[2]
      [] operator = "Minus" -> operands[1] - operands[2]
      [] operator = "Multiply" -> operands[1] * operands[2]

NoProblem ==
    [operands |-> <<0, 0>>, operator |-> "Plus", answer |-> 0,
     num_wrong |-> 0, latest_time |-> 0]

\* Problem::new with the operands of the subtraction taken in the wrong order.
ProblemNewSwapped(operands, operator, num_wrong, latest_time, chk) ==
    LET raw == IF operator = "Minus" THEN operands[2] - operands[1]
               ELSE Exact(operands, operator)
        fits == raw >= 0 /\ raw < U8Mod
    IN  IF ~fits /\ chk
        THEN [outcome |-> "panic", problem |-> NoProblem]
        ELSE [outcome |-> "ok",
              problem |-> [operands |-> operands,
                           operator |-> operator,
                           answer |-> raw % U8Mod,
                           num_wrong |-> num_wrong,
                           latest_time |-> latest_time]]

\* Problem::new.  u8 arithmetic: a result outside 0..255 panics in a build
\* with overflow checks and wraps modulo 2^8 in a build without.
ProblemNew(operands, operator, num_wrong, latest_time, chk) ==
    LET raw == Exact(operands, operator)
        fits == raw >= 0 /\ raw < U8Mod
    IN  IF ~fits /\ chk
        THEN [outcome |-> "panic", problem |-> NoProblem]
        ELSE [outcome |-> "ok",
              problem |-> [operands |-> operands,
                           operator |-> operator,
                           answer |-> raw % U8Mod,
                           num_wrong |-> num_wrong,
                           latest_time |-> latest_time]]

\* get_score reading the duration in milliseconds instead of whole seconds.
GetScoreMillis(p) == p.num_wrong * WrongWeight + p.latest_time

\* get_score without the weight of a wrong guess: num_wrong + as_secs.
GetScoreUnweighted(p) == p.num_wrong + AsSecs(p.latest_time)

\* Problem::get_score
GetScore(p) == p.num_wrong * WrongWeight + AsSecs(p.latest_time)

\* check_guess taking 1 off num_wrong on a correct guess whenever it is
\* above 0 (no floor of 1).
CheckGuessNoFloor(p, guess, elapsed_time, chk) ==
    IF p.answer = guess
    THEN [outcome |-> "ok", ret |-> TRUE,
          problem |-> [p EXCEPT !.latest_time = elapsed_time,
                                !.num_wrong = IF @ > 0 THEN @ - 1 ELSE @]]
    ELSE IF p.num_wrong + 1 >= U16Mod /\ chk
         THEN [outcome |-> "panic", ret |-> FALSE, problem |-> p]
         ELSE [outcome |-> "ok", ret |-> FALSE,
               problem |-> [p EXCEPT !.num_wrong = (@ + 1) % U16Mod]]

\* Problem::check_guess.  num_wrong += 1 on a u16: at 65535 it panics in a
\* build with overflow checks and wraps to 0 in a build without.
CheckGuess(p, guess, elapsed_time, chk) ==
    IF p.answer = guess
    THEN [outcome |-> "ok", ret |-> TRUE,
          problem |-> [p EXCEPT !.latest_time = elapsed_time,
                                !.num_wrong = IF @ > 1 THEN @ - 1 ELSE @]]
    ELSE IF p.num_wrong + 1 >= U16Mod /\ chk
         THEN [outcome |-> "panic", ret |-> FALSE, problem |-> p]
         ELSE [outcome |-> "ok", ret |-> FALSE,
               problem |-> [p EXCEPT !.num_wrong = (@ + 1) % U16Mod]]

----------------------------------------------------------------------------
(* select_problem *)

RECURSIVE SumScores(_, _)
\* problems.iter().map(|p| p.get_score()).sum(), over the first n problems
SumScores(ps, n) ==
    IF n = 0 THEN 0 ELSE SumScores(ps, n - 1) + GetScore(ps[n])

MaxScore(ps) == SumScores(ps, Len(ps))

RECURSIVE ScanOneBased(_, _, _, _)
\* The scan returning the 1-based position of the problem.
ScanOneBased(ps, pick, p, score) ==
    IF p >= Len(ps)
    THEN [found |-> FALSE, idx |-> 0]
    ELSE LET s == score + GetScore(ps[p + 1])
         IN  IF s >= pick
             THEN [found |-> TRUE, idx |-> p + 1]
             ELSE ScanOneBased(ps, pick, p + 1, s)

RECURSIVE ScanStrict(_, _, _, _)
\* The scan comparing with > instead of >=.
ScanStrict(ps, pick, p, score) ==
    IF p >= Len(ps)
    THEN [found |-> FALSE, idx |-> 0]
    ELSE LET s == score + GetScore(ps[p + 1])
         IN  IF s > pick
             THEN [found |-> TRUE, idx |-> p]
             ELSE ScanStrict(ps, pick, p + 1, s)

RECURSIVE ScanNoSum(_, _, _, _)
\* The scan comparing each score on its own, without the running sum.
ScanNoSum(ps, pick, p, score) ==
    IF p >= Len(ps)
    THEN [found |-> FALSE, idx |-> 0]
    ELSE LET s == GetScore(ps[p + 1])
         IN  IF s >= pick
             THEN [found |-> TRUE, idx |-> p]
             ELSE ScanNoSum(ps, pick, p + 1, s)

RECURSIVE ScanCompareFirst(_, _, _, _)
\* The scan comparing the running sum before it adds the problem's score.
ScanCompareFirst(ps, pick, p, score) ==
    IF p >= Len(ps)
    THEN [found |-> FALSE, idx |-> 0]
    ELSE IF score >= pick
         THEN [found |-> TRUE, idx |-> p]
         ELSE ScanCompareFirst(ps, pick, p + 1, score + GetScore(ps[p + 1]))

RECURSIVE Scan(_, _, _, _)
\* The loop "for p in 0..problems.len()": p is the 0-based index, score the
\* running sum before problem p is added.
Scan(ps, pick, p, score) ==
    IF p >= Len(ps)
    THEN [found |-> FALSE, idx |-> 0]
    ELSE LET s == score + GetScore(ps[p + 1])
         IN  IF s >= pick
             THEN [found |-> TRUE, idx |-> p]
             ELSE Scan(ps, pick, p + 1, s)

\* select_problem for a drawn pick.  The fallback problems.len()-1 is usize
\* arithmetic: on an empty catalog it panics with overflow checks and wraps
\* to usize::MAX without.
SelectProblem(ps, pick, chk) ==
    LET r == Scan(ps, pick, 0, 0)
    IN  IF r.found THEN [outcome |-> "ok", idx |-> r.idx]
        ELSE IF Len(ps) = 0
             THEN IF chk THEN [outcome |-> "panic", idx |-> 0]
                         ELSE [outcome |-> "ok", idx |-> USizeMax]
             ELSE [outcome |-> "ok", idx |-> Len(ps) - 1]

\* The values gen_range(0.0..=max_score) can draw, as ceilings.
Picks(ps) == 0..MaxScore(ps)

\* The draw at the fraction u/DrawSteps of the range, as its ceiling.
PickAt(ps, u) == (MaxScore(ps) * u + DrawSteps - 1) \div DrawSteps

----------------------------------------------------------------------------
(* The callers of the library: each action is one call *)

NoCall ==
    [call |-> "none", outcome |-> "ok", idx |-> 0, pick |-> 0, guess |-> 0,
     elapsed |-> 0, ret |-> FALSE, built |-> NoProblem]

Running == last.outcome # "panic"

\* The seed duration each catalog helper gives its problems.
SeedTime(operator) ==
    CASE operator = "Plus" -> FromSecs(PlusSeedSecs)
      [] operator = "Minus" -> FromSecs(MinusSeedSecs)
      [] operator = "Multiply" -> FromSecs(MultSeedSecs)

\* problems.push(Problem::new(operands, op, num_wrong, latest_time)).
PushNew(operands, operator, num_wrong, latest_time) ==
    /\ Running
    /\ Len(problems) < MaxLen
    /\ LET r == ProblemNew(operands, operator, num_wrong, latest_time, checks)
       IN  /\ problems' = IF r.outcome = "ok"
                          THEN Append(problems, r.problem) ELSE problems
           /\ last' = [NoCall EXCEPT !.call = "push", !.outcome = r.outcome,
                                     !.built = r.problem]
    /\ UNCHANGED <<checks, pc, args, file, session>>

\* One push of a catalog helper: num_wrong 0 and the operator's seed
\* duration.
Push(operands, operator) ==
    PushNew(operands, operator, 0, SeedTime(operator))

\* Problem::new(operands, op, 0, seed) on its own: the record is returned to
\* the caller and not put in the catalog.
New(operands, operator) ==
    /\ Running
    /\ LET r == ProblemNew(operands, operator, 0, SeedTime(operator), checks)
       IN  last' = [NoCall EXCEPT !.call = "new", !.outcome = r.outcome,
                                  !.built = r.problem]
    /\ UNCHANGED <<problems, checks, pc, args, file, session>>

RECURSIVE LowWrong(_, _)
\* The wrong counts of the first n problems, those near the top of the u16
\* range left out.
LowWrong(ps, n) ==
    IF n = 0 THEN 0
    ELSE LowWrong(ps, n - 1)
         + (IF ps[n].num_wrong >= U16Mod - WrapWindow THEN 0
            ELSE ps[n].num_wrong)

\* check_guess applied to every problem of the catalog instead of the one
\* at index i.
DoCheckGuessEvery(i, guess, elapsed) ==
    /\ Running
    /\ i < Len(problems)
    /\ LET r == CheckGuess(problems[i + 1], guess, elapsed, checks)
       IN  /\ problems' = [j \in 1..Len(problems) |->
                              CheckGuess(problems[j], guess, elapsed,
                                         checks).problem]
           /\ LowWrong(problems', Len(problems')) <= MaxWrong
           /\ last' = [NoCall EXCEPT !.call = "check_guess",
                                     !.outcome = r.outcome, !.idx = i,
                                     !.guess = guess, !.elapsed = elapsed,
                                     !.ret = r.ret]
    /\ UNCHANGED <<checks, pc, args, file, session>>

\* problems[i].check_guess(guess, elapsed); i is the 0-based index.
DoCheckGuess(i, guess, elapsed) ==
    /\ Running
    /\ i < Len(problems)
    /\ LET p == problems[i + 1]
           r == CheckGuess(p, guess, elapsed, checks)
       IN  /\ problems' = [problems EXCEPT ![i + 1] = r.problem]
           /\ LowWrong(problems', Len(problems')) <= MaxWrong
           /\ last' = [NoCall EXCEPT !.call = "check_guess",
                                     !.outcome = r.outcome, !.idx = i,
                                     !.guess = guess, !.elapsed = elapsed,
                                     !.ret = r.ret]
    /\ UNCHANGED <<checks, pc, args, file, session>>

\* select_problem(&problems) with the draw pick.
DoSelect(pick) ==
    /\ Running
    /\ LET r == SelectProblem(problems, pick, checks)
       IN  last' = [NoCall EXCEPT !.call = "select_problem",
                                  !.outcome = r.outcome, !.idx = r.idx,
                                  !.pick = pick]
    /\ UNCHANGED <<problems, checks, pc, args, file, session>>

NoArgs == [reset |-> FALSE, cmd |-> "none"]

NoFile == [kind |-> "missing", problems |-> <<>>]

\* No session: the locals of main before "let mut op_seen".
NoSession ==
    /\ op_seen = <<>>
    /\ num_correct = 0
    /\ num_questions = 0
    /\ prob = 0
    /\ timer = 0
    /\ clean = 0
    /\ spoiled = FALSE

Idle == pc = "lib" /\ args = NoArgs /\ file = NoFile /\ NoSession

----------------------------------------------------------------------------
(* Spec: a caller that builds a catalog the way the helpers do, then       *)
(* answers and selects in any order.                                       *)

Init ==
    /\ problems = <<>>
    /\ checks \in BOOLEAN
    /\ last = NoCall
    /\ Idle

PushAny == \E ops \in PushOperands, op \in MathOp : Push(ops, op)

CheckGuessAny ==
    \E i \in 0..(MaxLen - 1), g \in Guesses, e \in ElapsedTimes :
        DoCheckGuess(i, g, e)

SelectAny == \E u \in 0..DrawSteps : DoSelect(PickAt(problems, u))

Next == PushAny \/ CheckGuessAny \/ SelectAny

Spec == Init /\ [][Next]_vars

----------------------------------------------------------------------------
(* SpecNew: a caller that hands Problem::new its own operands and history, *)
(* as tests::test_select does.                                             *)

PushNewAny ==
    \E ops \in PushOperands, op \in MathOp, w \in NewWrongs, t \in NewTimes :
        PushNew(ops, op, w, t)

NewAny == \E ops \in NewOperands, op \in MathOp : New(ops, op)

NextNew == PushNewAny \/ NewAny \/ CheckGuessAny

SpecNew == Init /\ [][NextNew]_vars

----------------------------------------------------------------------------
(* SpecSelect: select_problem as a function of the catalog and the draw:   *)
(* every catalog of the bounds, every draw of its range.                   *)

\* num_wrong of the problems handed to select_problem.
SelectWrongs == {0, 1}

SelectProblems ==
    {ProblemNew(<<7, 6>>, "Plus", w, t, TRUE).problem :
        w \in SelectWrongs, t \in NewTimes}

RECURSIVE Catalogs(_)
Catalogs(n) ==
    IF n = 0 THEN {<<>>}
    ELSE LET shorter == Catalogs(n - 1)
         IN  shorter \cup {Append(c, p) : c \in {d \in shorter : Len(d) = n - 1},
                                          p \in SelectProblems}

InitSelect ==
    /\ problems \in Catalogs(MaxSelectLen)
    /\ checks \in BOOLEAN
    /\ last = NoCall
    /\ Idle

\* One call for each run: the catalog and the draw are its inputs.
SelectEvery ==
    /\ last.call = "none"
    /\ \E pick \in Picks(problems) : DoSelect(pick)

NextSelect == SelectEvery

SpecSelect == InitSelect /\ [][NextSelect]_vars

----------------------------------------------------------------------------
(* SpecTest: tests::test_select, three problems with a given history and   *)
(* select_problem called on them over and over.                            *)

\* The operands of the three problems of the test, in push order.
TestOperands == <<<<7, 6>>, <<1, 1>>, <<7, 6>>>>

\* Their num_wrong and their latest_time in seconds.
TestHistory == <<<<30, 30>>, <<10, 20>>, <<5, 5>>>>

\* problems.push(Problem::new(.., MathOp::Plus, num_wrong, from_secs(..))):
\* the next of the three pushes.
TestPush ==
    /\ Running
    /\ Len(problems) < Len(TestHistory)
    /\ LET i == Len(problems) + 1
           r == ProblemNew(TestOperands[i], "Plus", TestHistory[i][1],
                           FromSecs(TestHistory[i][2]), checks)
       IN  /\ problems' = IF r.outcome = "ok"
                          THEN Append(problems, r.problem) ELSE problems
           /\ last' = [NoCall EXCEPT !.call = "push", !.outcome = r.outcome,
                                     !.built = r.problem]
    /\ UNCHANGED <<checks, pc, args, file, session>>

\* One pass of "for _rep in 0..10000000": select_problem(&problems).
TestSelect ==
    /\ Len(problems) = Len(TestHistory)
    /\ \E pick \in Picks(problems) : DoSelect(pick)

NextTest == TestPush \/ TestSelect

SpecTest == Init /\ [][NextTest]_vars

----------------------------------------------------------------------------
(* The catalog helpers.  A helper's value is the catalog it leaves and      *)
(* whether a Problem::new in it panicked.                                   *)

\* problems.push(Problem::new(operands, operator, 0, seed)) for each operand
\* pair of ops in turn; a panic stops the helper at that push.
PushAll(acc, ops, operator, chk) ==
    IF acc.outcome = "panic" THEN acc
    ELSE LET rs == [i \in 1..Len(ops) |->
                       ProblemNew(ops[i], operator, 0, SeedTime(operator), chk)]
             bad == {i \in 1..Len(ops) : rs[i].outcome = "panic"}
             stop == IF bad = {} THEN Len(ops) + 1
                     ELSE CHOOSE i \in bad : \A j \in bad : i <= j
         IN  [outcome |-> IF bad = {} THEN "ok" ELSE "panic",
              problems |-> acc.problems
                           \o [i \in 1..(stop - 1) |-> rs[i].problem]]

RECURSIVE AddAdditionRow(_, _)
\* The operand pairs the inner loop of add_addition pushes from y on.
AddAdditionRow(x, y) ==
    IF y > AddYLast THEN <<>>
    ELSE <<<<x, y>>>> \o (IF x # y THEN <<<<y, x>>>> ELSE <<>>)
         \o AddAdditionRow(x, y + 1)

RECURSIVE AddAdditionRows(_)
\* The operand pairs the outer loop of add_addition pushes from x on.
AddAdditionRows(x) ==
    IF x > AddXLast THEN <<>>
    ELSE AddAdditionRow(x, 0) \o AddAdditionRows(x + 1)

AddAddition(acc, chk) ==
    PushAll(acc, AddAdditionRows(AddXFirst), "Plus", chk)

RECURSIVE AddSubtractionRowsSwapped(_)
\* The operand pairs of add_subtraction with the two operands exchanged.
AddSubtractionRowsSwapped(x) ==
    IF x > SubXLast THEN <<>>
    ELSE [y \in 1..(x - 1) |-> <<y, x>>] \o AddSubtractionRowsSwapped(x + 1)

RECURSIVE AddSubtractionRows(_)
\* The operand pairs add_subtraction pushes from x on: y in 1..x stops
\* before x.
AddSubtractionRows(x) ==
    IF x > SubXLast THEN <<>>
    ELSE [y \in 1..(x - 1) |-> <<x, y>>] \o AddSubtractionRows(x + 1)

AddSubtraction(acc, chk) ==
    PushAll(acc, AddSubtractionRows(0), "Minus", chk)

RECURSIVE AddMultRows(_)
\* The operand pairs add_mult pushes from x on.
AddMultRows(x) ==
    IF x > MultXLast THEN <<>>
    ELSE [y \in 1..MultYLast |-> <<x, y>>] \o AddMultRows(x + 1)

AddMult(acc, chk) == PushAll(acc, AddMultRows(1), "Multiply", chk)

\* init_problems: the three helpers in turn, each pushing onto the vector
\* it is handed.
InitProblems(acc, chk) == AddMult(AddSubtraction(AddAddition(acc, chk), chk), chk)

Catalog(ps) == [outcome |-> "ok", problems |-> ps]

----------------------------------------------------------------------------
(* main *)

\* The subcommand: none, or "add" with a question type.
Cmds == {"none", "+", "-", "x", "?"}

\* What the progress file holds when it holds a catalog.
FileProblems ==
    {ProblemNew(<<2, 1>>, op, w, SeedTime(op), TRUE).problem :
        op \in {"Plus", "Minus"}, w \in {0, 1}}

FileCatalogs ==
    {<<>>} \cup {<<p>> : p \in FileProblems}
           \cup {<<p, q>> : p \in FileProblems, q \in FileProblems}

\* The progress file: missing, unreadable as JSON, or a saved catalog.
Files ==
    {NoFile, [kind |-> "corrupt", problems |-> <<>>]}
        \cup {[kind |-> "saved", problems |-> c] : c \in FileCatalogs}

InitMain ==
    /\ problems = <<>>
    /\ checks \in BOOLEAN
    /\ last = NoCall
    /\ pc = "start"
    /\ args \in [reset : BOOLEAN, cmd : Cmds]
    /\ file \in Files
    /\ NoSession

\* load_progress: a readable file replaces the catalog (a file that does not
\* deserialize panics in expect); a missing one has init_problems fill it.
LoadProgress ==
    /\ pc = "start"
    /\ IF file.kind = "saved"
       THEN problems' = file.problems /\ pc' = "loaded"
       ELSE IF file.kind = "corrupt"
       THEN problems' = problems /\ pc' = "panicked"
       ELSE LET r == InitProblems(Catalog(problems), checks)
            IN  /\ problems' = r.problems
                /\ pc' = IF r.outcome = "ok" THEN "loaded" ELSE "panicked"
    /\ UNCHANGED <<checks, last, args, file, session>>

\* save_progress: the write either succeeds or panics in expect.
\* if args.reset { init_problems(&mut problems); save_progress(..) }
ResetProgress ==
    /\ pc = "loaded"
    /\ args.reset
    /\ LET r == InitProblems(Catalog(problems), checks)
       IN  /\ problems' = r.problems
           /\ IF r.outcome = "panic"
              THEN pc' = "panicked" /\ file' = file
              ELSE \/ /\ file' = [kind |-> "saved", problems |-> r.problems]
                      /\ pc' = "after_reset"
                   \/ pc' = "panicked" /\ file' = file
    /\ UNCHANGED <<checks, last, args, session>>

NoReset ==
    /\ pc = "loaded"
    /\ ~args.reset
    /\ pc' = "after_reset"
    /\ UNCHANGED <<problems, checks, last, args, file, session>>

\* match &args.cmd: Some(Add) runs the helper the question type names (or
\* none for an unknown type), saves and returns.
AddQuestions ==
    /\ pc = "after_reset"
    /\ args.cmd # "none"
    /\ LET r == CASE args.cmd = "+" -> AddAddition(Catalog(problems), checks)
                  [] args.cmd = "-" -> AddSubtraction(Catalog(problems), checks)
                  [] args.cmd = "x" -> AddMult(Catalog(problems), checks)
                  [] OTHER -> Catalog(problems)
       IN  /\ problems' = r.problems
           /\ IF r.outcome = "panic"
              THEN pc' = "panicked" /\ file' = file
              ELSE \/ /\ file' = [kind |-> "saved", problems |-> r.problems]
                      /\ pc' = "exit"
                   \/ pc' = "panicked" /\ file' = file
    /\ UNCHANGED <<checks, last, args, session>>

\* The operators of the catalog.
Operators(ps) == {ps[i].operator : i \in 1..Len(ps)}

\* None => {}: the quiz session follows, with op_seen holding false for
\* each operator of the catalog and both counters 0.
StartSession ==
    /\ pc = "after_reset"
    /\ args.cmd = "none"
    /\ pc' = "session"
    /\ op_seen' = [op \in Operators(problems) |-> FALSE]
    /\ num_correct' = 0
    /\ num_questions' = 0
    /\ UNCHANGED <<problems, checks, last, args, file, prob, timer, clean,
                   spoiled>>

NextMain ==
    LoadProgress \/ ResetProgress \/ NoReset \/ AddQuestions \/ StartSession

SpecMain == InitMain /\ [][NextMain]_vars

----------------------------------------------------------------------------
(* The quiz session of main: the loop at "while num_questions<30 && ..".   *)
(* pc is "session" at the head of the while loop and "asking" at           *)
(* read_line in the inner loop.                                            *)

\* The lines read_line can return, as sequences of characters.
Lines ==
    {<<"1", "\n">>, <<" ", "+", "3", " ", "\n">>, <<"x", "\n">>, <<"\n">>,
     <<"6", "5", "5", "3", "6", "\n">>}

Whitespace == {" ", "\n", "\t", "\r"}

Digits == <<"0", "1", "2", "3", "4", "5", "6", "7", "8", "9">>

RECURSIVE Trim(_)
\* str::trim: leading and trailing whitespace removed.
Trim(line) ==
    IF line = <<>> THEN line
    ELSE IF Head(line) \in Whitespace THEN Trim(Tail(line))
    ELSE IF line[Len(line)] \in Whitespace
         THEN Trim(SubSeq(line, 1, Len(line) - 1))
         ELSE line

ParseErr == [ok |-> FALSE, num |-> 0]

RECURSIVE ParseDigits(_, _)
\* The digits of text appended to the value num, as u16::from_str does:
\* a character that is no digit, or a value above u16::MAX, is an error.
ParseDigits(text, num) ==
    IF text = <<>> THEN [ok |-> TRUE, num |-> num]
    ELSE LET ds == {d \in 1..Len(Digits) : Digits[d] = Head(text)}
         IN  IF ds = {} THEN ParseErr
             ELSE LET next == num * 10 + (CHOOSE d \in ds : TRUE) - 1
                  IN  IF next >= U16Mod THEN ParseErr
                      ELSE ParseDigits(Tail(text), next)

\* guess.trim().parse() to a u16: an optional "+", then at least one digit.
ParseU16(line) ==
    LET text == Trim(line)
        body == IF text # <<>> /\ Head(text) = "+" THEN Tail(text) ELSE text
    IN  IF body = <<>> THEN ParseErr ELSE ParseDigits(body, 0)

\* timer.elapsed() when a guess is checked, in milliseconds.
AnswerTimes == {1500, 2500, 3500}

\* The catalogs the progress file of a session holds.
SessionCatalogs ==
    LET plus == ProblemNew(<<2, 1>>, "Plus", 0, SeedTime("Plus"), TRUE).problem
        minus == ProblemNew(<<2, 1>>, "Minus", 0, SeedTime("Minus"),
                            TRUE).problem
    IN  {<<>>, <<plus>>, <<plus, minus>>}

\* A run with no option and no subcommand, on a saved progress file.  The
\* build without overflow checks is run on the empty catalog, where
\* select_problem depends on the build.
InitSession ==
    /\ problems = <<>>
    /\ checks \in BOOLEAN
    /\ last = NoCall
    /\ pc = "start"
    /\ args = NoArgs
    /\ file \in {[kind |-> "saved", problems |-> c] : c \in SessionCatalogs}
    /\ checks \/ file.problems = <<>>
    /\ NoSession

\* The while condition without its op_seen disjunct.
LoopCondNoOps ==
    /\ num_questions < QuestionCap
    /\ num_correct < StreakLen

\* The while condition with <= in its question cap.
LoopCondInclusive ==
    /\ num_questions <= QuestionCap
    /\ \/ num_correct < StreakLen
       \/ \E op \in DOMAIN op_seen : op_seen[op] = FALSE

\* The condition of the while loop.
LoopCond ==
    /\ num_questions < QuestionCap
    /\ \/ num_correct < StreakLen
       \/ \E op \in DOMAIN op_seen : op_seen[op] = FALSE

\* The head of one pass of the while loop: select_problem, the op_seen
\* flag of the selected problem (problems[prob] panics for an index out of
\* the catalog), the question tally and the start of the timer.
SelectQuestion(pick) ==
    /\ pc = "session"
    /\ LoopCond
    /\ LET r == SelectProblem(problems, pick, checks)
           indexed == r.outcome = "ok" /\ r.idx < Len(problems)
       IN  /\ last' = [NoCall EXCEPT !.call = "select_problem",
                                     !.outcome = r.outcome, !.idx = r.idx,
                                     !.pick = pick]
           /\ IF indexed
              THEN /\ pc' = "asking"
                   /\ prob' = r.idx
                   /\ op_seen' = [op \in DOMAIN op_seen
                                           \cup {problems[r.idx + 1].operator}
                                   |-> IF op = problems[r.idx + 1].operator
                                       THEN TRUE ELSE op_seen[op]]
                   /\ num_questions' = num_questions + 1
              ELSE /\ pc' = "panicked"
                   /\ UNCHANGED <<prob, op_seen, num_questions>>
    /\ timer' = 0
    /\ spoiled' = FALSE
    /\ UNCHANGED <<problems, checks, args, file, num_correct, clean>>

\* A line that does not parse handled as a wrong answer.
ReadInvalidCounted(line) ==
    /\ pc = "asking"
    /\ ~ParseU16(line).ok
    /\ last' = [NoCall EXCEPT !.call = "parse", !.outcome = "err",
                              !.idx = prob]
    /\ num_correct' = 0
    /\ UNCHANGED <<problems, checks, pc, args, file, op_seen, num_questions,
                   prob, timer, clean, spoiled>>

\* One pass of the inner loop on a line that does not parse: the message
\* and "continue".  The clock is not read.
ReadInvalid(line) ==
    /\ pc = "asking"
    /\ ~ParseU16(line).ok
    /\ last' = [NoCall EXCEPT !.call = "parse", !.outcome = "err",
                              !.idx = prob]
    /\ UNCHANGED <<problems, checks, pc, args, file, session>>

\* One pass of the inner loop on a line that parses to guess: check_guess
\* with the elapsed time; a correct guess counts when its whole seconds are
\* at most 2 and ends the question, a wrong one sets num_correct to 0.
ReadGuess(line, elapsed) ==
    /\ pc = "asking"
    /\ elapsed >= timer
    /\ ParseU16(line).ok
    /\ LET guess == ParseU16(line).num
           r == CheckGuess(problems[prob + 1], guess, elapsed, checks)
       IN  /\ problems' = [problems EXCEPT ![prob + 1] = r.problem]
           /\ LowWrong(problems', Len(problems')) <= MaxSessionWrong
           /\ last' = [NoCall EXCEPT !.call = "check_guess",
                                     !.outcome = r.outcome, !.idx = prob,
                                     !.guess = guess, !.elapsed = elapsed,
                                     !.ret = r.ret]
           /\ IF r.outcome = "panic"
              THEN /\ pc' = "panicked"
                   /\ timer' = elapsed
                   /\ UNCHANGED <<num_correct, prob, clean, spoiled>>
              ELSE IF r.ret
              THEN /\ num_correct' =
                          IF AsSecs(r.problem.latest_time) <= FastSecs
                          THEN num_correct + 1 ELSE num_correct
                   /\ pc' = "session"
                   /\ prob' = 0
                   /\ timer' = 0
                   /\ clean' = IF ~spoiled /\ elapsed < FromSecs(2)
                               THEN IF clean < StreakLen THEN clean + 1
                                    ELSE clean
                               ELSE 0
                   /\ spoiled' = FALSE
              ELSE /\ num_correct' = 0
                   /\ pc' = "asking"
                   /\ timer' = elapsed
                   /\ spoiled' = TRUE
                   /\ UNCHANGED <<prob, clean>>
    /\ UNCHANGED <<checks, args, file, op_seen, num_questions>>

\* The while condition is false: the closing message and save_progress,
\* whose write succeeds or panics in expect.
EndSession ==
    /\ pc = "session"
    /\ ~LoopCond
    /\ \/ file' = [kind |-> "saved", problems |-> problems] /\ pc' = "exit"
       \/ file' = file /\ pc' = "panicked"
    /\ UNCHANGED <<problems, checks, last, args, session>>

SelectQuestionAny ==
    \E u \in 0..DrawSteps : SelectQuestion(PickAt(problems, u))

ReadInvalidAny == \E line \in Lines : ReadInvalid(line)

ReadGuessAny == \E line \in Lines, e \in AnswerTimes : ReadGuess(line, e)

NextSession ==
    \/ LoadProgress
    \/ NoReset
    \/ StartSession
    \/ SelectQuestionAny
    \/ ReadInvalidAny
    \/ ReadGuessAny
    \/ EndSession

SpecSession == InitSession /\ [][NextSession]_vars

\* The steps the program takes on its own, with no line to wait for.
ProgramStep ==
    \/ LoadProgress
    \/ NoReset
    \/ StartSession
    \/ SelectQuestionAny
    \/ EndSession

\* SpecSessionFair: the program keeps running whenever it does not wait at
\* read_line.
SpecSessionFair == SpecSession /\ WF_vars(ProgramStep)

----------------------------------------------------------------------------
(* Claims *)

Selected == last.call = "select_problem" /\ last.outcome = "ok"

\* For each unit cell (k-1, k] of the draw range, the index select_problem
\* maps its draws to.
CellIndex(ps) ==
    [k \in 1..MaxScore(ps) |-> SelectProblem(ps, k, checks).idx]

\* The share of the draw range mapped to each index is its score over the
\* total: the cells mapped to index i, times the total, are Score(i) times
\* the cells of the range.
SharesAreScores(ps) ==
    LET cell == CellIndex(ps)
        total == MaxScore(ps)
    IN  \A i \in 0..(Len(ps) - 1) :
            Cardinality({k \in DOMAIN cell : cell[k] = i}) * total
                = GetScore(ps[i + 1]) * Cardinality(DOMAIN cell)

\* C1 as stated: for every non-empty catalog the quotient
\* Score(i) / total is defined and is the share of the draw range that
\* select_problem maps to index i.
C1_ShareIsScoreOverTotal ==
    (Selected /\ Len(problems) > 0) =>
        /\ MaxScore(problems) > 0
        /\ SharesAreScores(problems)

\* C1 amended: for every non-empty catalog whose scores sum to more than 0,
\* the share of the draw range mapped to index i is Score(i) / total; a
\* catalog whose scores are all 0 has the one draw 0, mapped to index 0.
C1_ShareWhenTotalPositive ==
    (Selected /\ Len(problems) > 0) =>
        /\ MaxScore(problems) > 0 => SharesAreScores(problems)
        /\ MaxScore(problems) = 0 => (last.pick = 0 /\ last.idx = 0)

C1_Witness ==
    /\ Selected
    /\ Len(problems) = 2
    /\ GetScore(problems[1]) > 0
    /\ GetScore(problems[2]) > GetScore(problems[1])
    /\ last.idx = 1

\* C2: for a non-empty catalog select_problem returns an index in
\* [0, len-1], whatever the draw; for a catalog of one problem it returns 0.
C2_IndexInRange ==
    (last.call = "select_problem" /\ Len(problems) > 0) =>
        /\ last.outcome = "ok"
        /\ last.idx \in 0..(Len(problems) - 1)
        /\ Len(problems) = 1 => last.idx = 0

C2_Witness ==
    /\ Selected
    /\ Len(problems) >= 2
    /\ last.idx = Len(problems) - 1
    /\ last.pick = MaxScore(problems)

\* C3 as stated: select_problem on an empty catalog fails explicitly; it
\* never returns an index value.
C3_EmptyCatalogFails ==
    (last.call = "select_problem" /\ Len(problems) = 0) =>
        last.outcome = "panic"

\* C4: for a non-empty catalog select_problem returns the smallest index k
\* whose running sum Score(0)+...+Score(k), taken in catalog order, is >=
\* the draw.
C4_FirstIndexReachingPick ==
    (last.call = "select_problem" /\ Len(problems) > 0) =>
        /\ last.outcome = "ok"
        /\ last.idx \in 0..(Len(problems) - 1)
        /\ SumScores(problems, last.idx + 1) >= last.pick
        /\ \A j \in 0..(last.idx - 1) : SumScores(problems, j + 1) < last.pick

C4_Witness ==
    /\ Selected
    /\ Len(problems) >= 2
    /\ last.idx = 1
    /\ last.pick = GetScore(problems[1]) + 1
    /\ GetScore(problems[1]) > 0
    /\ GetScore(problems[2]) > 1

\* A step that is one check_guess call on the problem at index i.
CheckGuessStep(i) ==
    /\ last'.call = "check_guess"
    /\ last'.idx = i
    /\ i < Len(problems)
    /\ Len(problems') = Len(problems)

\* C5 as stated: a correct guess takes 1 off num_wrong exactly when
\* num_wrong > 1 and otherwise leaves it; so no check_guess call brings a
\* num_wrong >= 1 to 0, and num_wrong is never below 0.
C5_FloorOfOne ==
    [][\A i \in 0..(MaxLen - 1) :
          CheckGuessStep(i) =>
              LET old == problems[i + 1].num_wrong
                  new == problems'[i + 1].num_wrong
              IN  /\ (last'.outcome = "ok" /\ last'.ret) =>
                        new = IF old > 1 THEN old - 1 ELSE old
                  /\ old >= 1 => new >= 1
                  /\ new >= 0]_vars

\* C6 as stated: whatever num_wrong the counter holds, check_guess with the
\* answer sets latest_time to the elapsed time and returns true; with any
\* other guess it returns false, leaves latest_time and adds exactly 1 to
\* num_wrong.
C6_CheckGuessEffect ==
    [][\A i \in 0..(MaxLen - 1) :
          CheckGuessStep(i) =>
              LET old == problems[i + 1]
                  new == problems'[i + 1]
              IN  IF last'.guess = old.answer
                  THEN /\ last'.outcome = "ok"
                       /\ last'.ret
                       /\ new.latest_time = last'.elapsed
                  ELSE /\ last'.outcome = "ok"
                       /\ ~last'.ret
                       /\ new.latest_time = old.latest_time
                       /\ new.num_wrong = old.num_wrong + 1]_vars

\* C7 as stated: after the reset step of a run started with the reset
\* option the catalog is exactly the freshly generated catalog of
\* init_problems, with no problem that was in it before the reset.
C7_ResetReplacesCatalog ==
    (pc = "after_reset" /\ args.reset) =>
        problems = InitProblems(Catalog(<<>>), checks).problems

\* C8 as stated: Problem::new never produces a record whose answer is not
\* the operator applied to the operands: when the result does not fit the
\* answer (Minus with operands[0] < operands[1], Plus or Multiply beyond
\* the u8), the construction fails.
C8_ConstructionFails ==
    (last.call \in {"new", "push"} /\ last.outcome = "ok") =>
        last.built.answer = Exact(last.built.operands, last.built.operator)

AllFast(ps) ==
    \A i \in 1..Len(ps) :
        ps[i].num_wrong = 0 /\ ps[i].latest_time < MillisPerSec

\* C10 as stated: in a catalog built by the helpers the scores never sum to
\* 0, whatever check_guess and select_problem calls follow.
C10_ScoreSumPositive ==
    Len(problems) > 0 => MaxScore(problems) > 0

\* C10 amended: a problem pushed by the helpers has a positive score, and
\* the scores of the catalog sum to 0 exactly when every problem has
\* num_wrong = 0 and a latest_time under one second (which a correct
\* check_guess with such an elapsed time leaves): the sum is never negative.
C10_ScoreSumZeroOnlyWhenAllFast ==
    Len(problems) > 0 =>
        /\ MaxScore(problems) >= 0
        /\ (MaxScore(problems) = 0) <=> AllFast(problems)
        /\ (last.call = "push" /\ last.outcome = "ok") =>
              GetScore(problems[Len(problems)]) > 0

C10_Witness ==
    /\ Len(problems) = 2
    /\ MaxScore(problems) = 0
    /\ last.call = "check_guess"
    /\ last.ret

\* The number of unit cells of the draw range that select_problem maps to
\* each index of the catalog, in index order.
CellCounts(ps) ==
    LET cell == CellIndex(ps)
    IN  [i \in 1..Len(ps) |->
            Cardinality({k \in DOMAIN cell : cell[k] = i - 1})]

Scores(ps) == [i \in 1..Len(ps) |-> GetScore(ps[i])]

TestCatalog == Len(problems) = Len(TestHistory) /\ Selected

Performance(p) == <<p.num_wrong, p.latest_time>>

\* C12: check_guess is the only mutator of the performance fields:
\* select_problem leaves every problem's num_wrong and latest_time (and the
\* whole catalog) unchanged, no call but check_guess changes them for a
\* problem of the catalog, and a check_guess call on the problem at index i
\* leaves every other problem, the catalog's length and its order unchanged.
C12_OnlyCheckGuessMutates ==
    [][/\ last'.call = "select_problem" => problems' = problems
       /\ last'.call # "check_guess" =>
              \A j \in 1..Len(problems) :
                  /\ j <= Len(problems')
                  /\ Performance(problems'[j]) = Performance(problems[j])
       /\ last'.call = "check_guess" =>
              /\ Len(problems') = Len(problems)
              /\ \A j \in 1..Len(problems) :
                     /\ j # last'.idx + 1 => problems'[j] = problems[j]
                     /\ problems'[j].operands = problems[j].operands
                     /\ problems'[j].operator = problems[j].operator]_vars

C12_Witness ==
    /\ last.call = "check_guess"
    /\ last.idx = 0
    /\ ~last.ret
    /\ Len(problems) = 2
    /\ problems[1].num_wrong = 1
    /\ problems[2].num_wrong = 1
    /\ problems[2].latest_time = 2500

\* The last index whose problem has a positive score; 0 when none has.
LastPositive(ps) ==
    LET pos == {i \in 0..(Len(ps) - 1) : GetScore(ps[i + 1]) > 0}
    IN  IF pos = {} THEN 0 ELSE CHOOSE i \in pos : \A j \in pos : j <= i

PickIsTotal ==
    Selected /\ Len(problems) > 0 /\ last.pick = MaxScore(problems)

\* C15 as stated: when pick equals the total of the scores, select_problem
\* returns the last index len-1, for every non-empty catalog.
C15_PickTotalReturnsLast ==
    PickIsTotal => last.idx = Len(problems) - 1

\* C15 amended: when pick equals the total of the scores, select_problem
\* returns the first index whose running sum reaches the total, which is
\* the last index whose problem has a positive score (index 0 when every
\* score is 0); that is len-1 when the last problem's score is positive.
C15_PickTotalReturnsLastPositive ==
    PickIsTotal =>
        /\ last.idx = LastPositive(problems)
        /\ GetScore(problems[Len(problems)]) > 0 =>
              last.idx = Len(problems) - 1

C15_Witness ==
    /\ PickIsTotal
    /\ Len(problems) = 2
    /\ GetScore(problems[1]) > 0
    /\ GetScore(problems[2]) = 0
    /\ last.idx = 0

MeetsPreconditions(p) ==
    /\ p.operands[1] \in 0..15
    /\ p.operands[2] \in 0..15
    /\ p.operator = "Minus" => p.operands[1] >= p.operands[2]
    /\ Exact(p.operands, p.operator) \in 0..(U8Mod - 1)
    /\ p.answer = Exact(p.operands, p.operator)

\* What each helper, and init_problems, leaves on an empty catalog.
HelperRuns ==
    {AddAddition(Catalog(<<>>), checks), AddSubtraction(Catalog(<<>>), checks),
     AddMult(Catalog(<<>>), checks), InitProblems(Catalog(<<>>), checks)}

\* C16: add_addition, add_subtraction, add_mult and init_problems complete
\* without a failed construction, and every problem they produce has
\* operands at most 15, operands[0] >= operands[1] when it is a
\* subtraction, and an answer that fits the u8; so has every problem of the
\* catalog main holds after loading, resetting or adding.
C16_HelpersMeetPreconditions ==
    /\ \A h \in HelperRuns :
           /\ h.outcome = "ok"
           /\ \A i \in 1..Len(h.problems) : MeetsPreconditions(h.problems[i])
    /\ \A i \in 1..Len(problems) : MeetsPreconditions(problems[i])

C16_Witness ==
    /\ pc = "exit"
    /\ args.cmd = "-"
    /\ file.kind = "saved"
    /\ Len(problems) >= 105
    /\ \E i \in 1..Len(problems) :
           /\ problems[i].operator = "Minus"
           /\ problems[i].operands = <<15, 14>>
           /\ problems[i].answer = 1

\* The while loop is at its head with a false condition: the session ends.
LoopExits == pc = "session" /\ ~LoopCond

AllSeen ==
    \A op \in Operators(problems) : op \in DOMAIN op_seen /\ op_seen[op]

\* C13 as stated: whenever the session loop exits before the question cap
\* is reached, the 5 most recently presented problems were each answered
\* correctly in under 2 seconds, with no wrong guess and no slower answer
\* among them.
C13_ExitAfterFiveCleanAnswers ==
    (LoopExits /\ num_questions < QuestionCap) => clean >= 5

C17_InvalidLineChangesNothing ==
    /\ [](\A line \in Lines :
              ParseU16(line) =
                  IF line = <<"1", "\n">> THEN [ok |-> TRUE, num |-> 1]
                  ELSE IF line = <<" ", "+", "3", " ", "\n">>
                  THEN [ok |-> TRUE, num |-> 3]
                  ELSE ParseErr)
    /\ [][(pc = "asking" /\ last'.call = "parse") =>
              /\ problems' = problems
              /\ num_correct' = num_correct
              /\ num_questions' = num_questions
              /\ op_seen' = op_seen
              /\ prob' = prob
              /\ pc' = "asking"]_vars

C17_Witness ==
    /\ pc = "asking"
    /\ last.call = "parse"
    /\ last.outcome = "err"
    /\ num_questions = 4
    /\ prob = 1
    /\ spoiled
    /\ problems[prob + 1].num_wrong = 1

\* The program has stopped: main returned or panicked.
Stopped == pc \in {"exit", "panicked"}

\* The user eventually enters the answer of each problem asked: the
\* program is not left asking one problem for ever.
EveryProblemAnswered == []<>(pc # "asking")

\* C18: a session presents at most 30 problems; while a problem is asked it
\* stays the asked problem until check_guess returns true for it (or the
\* program panics); and, the user eventually entering the answer of each
\* problem asked, the program stops.
C18_AtMostThirtyAndTerminates ==
    /\ [](num_questions <= QuestionCap)
    /\ [][/\ num_questions' # num_questions =>
                 /\ num_questions' = num_questions + 1
                 /\ pc = "session"
                 /\ pc' = "asking"
          /\ pc = "asking" =>
                 \/ pc' = "asking" /\ prob' = prob
                 \/ /\ last'.call = "check_guess"
                    /\ last'.idx = prob
                    /\ \/ last'.ret /\ pc' = "session"
                       \/ last'.outcome = "panic" /\ pc' = "panicked"]_vars
    /\ EveryProblemAnswered => <>Stopped

C18_Witness ==
    /\ pc = "exit"
    /\ num_questions = QuestionCap
    /\ num_correct < StreakLen
    /\ file.problems = problems
    /\ \E i \in 1..Len(problems) : problems[i].num_wrong = 1

====
